---- MODULE Spec2Model ----
(***************************************************************************)
(* Model of dynamic_taskgraph/taskgraph.py: the TaskGraph store (an        *)
(* insertion-ordered mapping from task name to TaskGraphNode plus a node   *)
(* count), its mutations add_node / delete_node / add_edge / delete_edge   *)
(* / reset_graph and its queries topological_sort / validate /             *)
(* all_downstreams.                                                        *)
(*                                                                         *)
(* Every call is one atomic action, followed by a Return step in which the *)
(* caller drops the result before it makes the next call.  Iterating a     *)
(* Python set has no fixed order, so every loop over out_edges / in_edges  *)
(* ranges over all enumerations of the set: an operation yields a SET of   *)
(* outcomes and the action picks one of them.                              *)
(***************************************************************************)
EXTENDS Integers, Sequences, FiniteSets

VARIABLES
    graph,       \* self.graph: sequence of nodes in insertion order
    node_count,  \* self.node_count
    call,        \* the last call made on the graph: [op, args]
    err,         \* the exception that call raised, or NoError
    ret,         \* the value that call returned (<<>> for None)
    prev,        \* [graph, node_count] as they were when that call began
    pc,          \* "ready": awaiting a call; "returned": a call has just ended;
                 \* any other value: the line run() has reached
    input_dict,  \* run: input_dict, task name -> pending input
    round,       \* run: i, the index of the current round
    waiting_list,\* run: waiting_list of the current round
    cursor,      \* run: position reached in waiting_list, or in the splice
    boot,        \* run: alpha_task_name, omega_task_name, alpha_task_output,
                 \* first_task_name of the bootstrap round
    round_graph, \* the graph as the current round of run found it
    execs,       \* the start() calls of the current round, in order
    tasks,       \* self.graph[name].task: the class of the task object each
                 \* node stores
    interference \* the mutations other coroutines have made on the graph
                 \* while this run() call was suspended in an await

\* the variables of one run() call
rvars == <<input_dict, round, waiting_list, cursor, boot, round_graph, execs,
           interference>>

vars == <<graph, node_count, call, err, ret, prev, pc, rvars, tasks>>

---------------------------------------------------------------------------
(* Inputs and bounds *)

\* Task names the calls are made with.
Names == {"task_1", "task_2", "task_3", "task_4"}

\* Task(...).name of a task constructed without a name.
None == "None"

TaskNames == Names \cup {None}

\* add_node adds no node beyond this many; only test_taskGraph builds more.
MaxNodes == 3

\* add_edge adds no edge beyond this many.
MaxEdges == 3

---------------------------------------------------------------------------
(* Exceptions raised by taskgraph.py *)

NoError == "NoError"
ValueError_NameNone == "ValueError: Task name cannot be None"
KeyError_NodeExists == "KeyError: Node already exists"
KeyError_NodeMissing == "KeyError: Node does not exist"
KeyError_EndpointMissing == "KeyError: Node do not exist in the graph"
Exception_Cycle == "Exception: Adding this edge would create a cycle"
KeyError_EdgeMissing == "KeyError: Edge does not exist"
ValueError_NotAcyclic == "ValueError: Graph is not acyclic"
\* a failed dict lookup self.graph[name] or set.remove(name)
KeyError_Lookup == "KeyError"

---------------------------------------------------------------------------
(* TaskGraphNode and the OrderedDict *)

TaskGraphNode(name) == [name |-> name, out_edges |-> {}, in_edges |-> {}]

\* the keys of self.graph
Keys(g) == {g[i].name : i \in 1..Len(g)}

\* position of a key in the iteration order
Index(g, name) == CHOOSE i \in 1..Len(g) : g[i].name = name

\* self.graph[name]
Node(g, name) == g[Index(g, name)]

\* del self.graph[name]: the other keys keep their relative order
DelKey(g, name) ==
    LET i == Index(g, name)
    IN  SubSeq(g, 1, i - 1) \o SubSeq(g, i + 1, Len(g))

\* every order in which a loop may iterate over the set S
IterationOrders(S) ==
    {s \in [1..Cardinality(S) -> S] : \A i, j \in 1..Cardinality(S) : s[i] = s[j] => i = j}

\* an outcome of a call: the graph state it leaves, what it raised or returned
Outcome(g, cnt, e, r) == [graph |-> g, node_count |-> cnt, err |-> e, ret |-> r]

---------------------------------------------------------------------------
(* topological_sort and validate *)

\* in_degree after the counting loop: one per (node, successor) pair; a
\* defaultdict, so every name never counted reads 0
CountInDegree(g) ==
    [n \in Keys(g) \cup UNION {g[i].out_edges : i \in 1..Len(g)} |->
        Cardinality({i \in 1..Len(g) : n \in g[i].out_edges})]

\* Faulty variant of SeedReady: every key is seeded, whatever its in-degree.
SeedReadyAll(g, in_degree, i) == [j \in 1..Len(g) |-> g[j].name]

\* ready as seeded: the zero-in-degree keys in insertion order
RECURSIVE SeedReady(_, _, _)
SeedReady(g, in_degree, i) ==
    IF i > Len(g) THEN <<>>
    ELSE (IF in_degree[g[i].name] = 0 THEN <<g[i].name>> ELSE <<>>)
         \o SeedReady(g, in_degree, i + 1)

\* the inner for loop over the successors of the popped node, taken in the
\* order `order`: decrement, and push a successor that reaches zero
RECURSIVE VisitSuccessors(_, _, _)
VisitSuccessors(order, ready, in_degree) ==
    IF order = <<>> THEN [ready |-> ready, in_degree |-> in_degree]
    ELSE LET successor_name == Head(order)
             d == in_degree[successor_name] - 1
             deg == [in_degree EXCEPT ![successor_name] = d]
         IN  VisitSuccessors(Tail(order),
                             IF d = 0 THEN Append(ready, successor_name) ELSE ready,
                             deg)

\* Faulty variant of Pop: the ready collection is consumed as a queue.
PopFront(ready) == [task_name |-> ready[1], rest |-> Tail(ready)]

\* ready.pop() takes the LAST element
Pop(ready) == [task_name |-> ready[Len(ready)], rest |-> SubSeq(ready, 1, Len(ready) - 1)]

\* the while loop: every result list it can end with, or a failed lookup of
\* self.graph[task_name]
RECURSIVE KahnLoop(_, _, _, _)
KahnLoop(g, ready, in_degree, result) ==
    IF ready = <<>> THEN {[err |-> NoError, ret |-> result]}
    ELSE LET p == Pop(ready)
         IN  IF p.task_name \notin Keys(g)
             THEN {[err |-> KeyError_Lookup, ret |-> <<>>]}
             ELSE UNION {
                    LET st == VisitSuccessors(order, p.rest, in_degree)
                    IN  KahnLoop(g, st.ready, st.in_degree, Append(result, p.task_name))
                    : order \in IterationOrders(Node(g, p.task_name).out_edges)}

\* Faulty variant of LengthCheck: returns the result whatever its length.
LengthCheckOff(g, o) == o

\* the final length test of topological_sort
LengthCheck(g, o) ==
    IF o.err # NoError THEN o
    ELSE IF Len(o.ret) = Len(g) THEN o
    ELSE [err |-> ValueError_NotAcyclic, ret |-> <<>>]

\* topological_sort(): the set of [err, ret] it can end with
topological_sort(g) ==
    LET in_degree == CountInDegree(g)
    IN  {LengthCheck(g, o) : o \in KahnLoop(g, SeedReady(g, in_degree, 1), in_degree, <<>>)}

\* validate(): catches ValueError only
validate(g) ==
    {IF o.err = ValueError_NotAcyclic THEN [err |-> NoError, ret |-> <<FALSE, "Graph is not acyclic">>]
     ELSE IF o.err = NoError THEN [err |-> NoError, ret |-> <<TRUE, "Valid DAG">>]
     ELSE [err |-> o.err, ret |-> <<>>]
     : o \in topological_sort(g)}

---------------------------------------------------------------------------
(* add_node, delete_node, add_edge, delete_edge, reset_graph *)

\* Faulty variant of add_node: node_count is not incremented.
add_node_NoCount(g, cnt, name) ==
    IF name = None THEN {Outcome(g, cnt, ValueError_NameNone, <<>>)}
    ELSE IF name \in Keys(g) THEN {Outcome(g, cnt, KeyError_NodeExists, <<>>)}
    ELSE {Outcome(Append(g, TaskGraphNode(name)), cnt, NoError, <<>>)}

\* Faulty variant of add_node: no test for a name that is already a key.
add_node_NoDuplicateCheck(g, cnt, name) ==
    IF name = None THEN {Outcome(g, cnt, ValueError_NameNone, <<>>)}
    ELSE {Outcome(Append(g, TaskGraphNode(name)), cnt + 1, NoError, <<>>)}

\* add_node(task) with task.name = name
add_node(g, cnt, name) ==
    IF name = None THEN {Outcome(g, cnt, ValueError_NameNone, <<>>)}
    ELSE IF name \in Keys(g) THEN {Outcome(g, cnt, KeyError_NodeExists, <<>>)}
    ELSE {Outcome(Append(g, TaskGraphNode(name)), cnt + 1, NoError, <<>>)}

\* Faulty variant of RemoveFromOut: the predecessors keep the name.
RemoveFromOutNone(g, done, name) == g

\* self.graph[p].out_edges.remove(name) for every p in done
RemoveFromOut(g, done, name) ==
    [i \in 1..Len(g) |->
        IF g[i].name \in done THEN [g[i] EXCEPT !.out_edges = @ \ {name}] ELSE g[i]]

\* Faulty variant of RemoveFromIn: the successors keep the name.
RemoveFromInNone(g, done, name) == g

\* self.graph[s].in_edges.remove(name) for every s in done
RemoveFromIn(g, done, name) ==
    [i \in 1..Len(g) |->
        IF g[i].name \in done THEN [g[i] EXCEPT !.in_edges = @ \ {name}] ELSE g[i]]

\* The first loop of delete_node.  self.graph[p] and set.remove raise
\* KeyError when p is no key or does not hold name; the loop then stops
\* with the predecessors visited before p already updated.
DeletePredecessorLoop(g, name) ==
    LET preds == Node(g, name).in_edges
        bad == {p \in preds : p \notin Keys(g) \/ name \notin Node(g, p).out_edges}
    IN  IF bad = {}
        THEN {[graph |-> RemoveFromOut(g, preds, name), err |-> NoError]}
        ELSE {[graph |-> RemoveFromOut(g, done, name), err |-> KeyError_Lookup]
              : done \in SUBSET (preds \ bad)}

\* The second loop of delete_node, over node_to_delete.out_edges as the
\* first loop left it.
DeleteSuccessorLoop(g, name) ==
    LET succs == Node(g, name).out_edges
        bad == {s \in succs : s \notin Keys(g) \/ name \notin Node(g, s).in_edges}
    IN  IF bad = {}
        THEN {[graph |-> RemoveFromIn(g, succs, name), err |-> NoError]}
        ELSE {[graph |-> RemoveFromIn(g, done, name), err |-> KeyError_Lookup]
              : done \in SUBSET (succs \ bad)}

\* delete_node past its existence test: the two loops, then the del and the
\* decrement
DeleteExisting(g, cnt, name) ==
    UNION {
      IF l1.err # NoError THEN {Outcome(l1.graph, cnt, l1.err, <<>>)}
      ELSE {IF l2.err # NoError THEN Outcome(l2.graph, cnt, l2.err, <<>>)
            ELSE Outcome(DelKey(l2.graph, name), cnt - 1, NoError, <<>>)
            : l2 \in DeleteSuccessorLoop(l1.graph, name)}
      : l1 \in DeletePredecessorLoop(g, name)}

\* Faulty variant of delete_node: a name that is no key is ignored silently.
delete_node_Silent(g, cnt, name) ==
    IF name \notin Keys(g) THEN {Outcome(g, cnt, NoError, <<>>)}
    ELSE DeleteExisting(g, cnt, name)

\* delete_node(task) with task.name = name
delete_node(g, cnt, name) ==
    IF name \notin Keys(g) THEN {Outcome(g, cnt, KeyError_NodeMissing, <<>>)}
    ELSE DeleteExisting(g, cnt, name)

\* Faulty variant of CommitEdge: to's in_edges is left as it was.
CommitEdgeOutOnly(g, from, to) ==
    [g EXCEPT ![Index(g, from)].out_edges = @ \cup {to}]

\* out_edges.add(to) on from, in_edges.add(from) on to
CommitEdge(g, from, to) ==
    LET g1 == [g EXCEPT ![Index(g, from)].out_edges = @ \cup {to}]
    IN  [g1 EXCEPT ![Index(g, to)].in_edges = @ \cup {from}]

\* add_edge(from_task, to_task).  test_graph is the deep copy with the edge
\* added; the validation that follows is self.validate(), which sorts
\* self.graph, so test_graph is never read.
add_edge(g, cnt, from, to) ==
    IF from \notin Keys(g) THEN {Outcome(g, cnt, KeyError_EndpointMissing, <<>>)}
    ELSE IF to \notin Keys(g) THEN {Outcome(g, cnt, KeyError_EndpointMissing, <<>>)}
    ELSE LET test_graph == CommitEdge(g, from, to)
         IN  {IF v.err # NoError THEN Outcome(g, cnt, v.err, <<>>)
              ELSE IF v.ret[1] THEN Outcome(CommitEdge(g, from, to), cnt, NoError, <<>>)
              ELSE Outcome(g, cnt, Exception_Cycle, <<>>)
              : v \in validate(g)}

\* Faulty variant of delete_edge: the edge is removed from from's out_edges
\* only; to's in_edges keeps it.
delete_edge_OneSided(g, cnt, from, to) ==
    LET out == IF from \in Keys(g) THEN Node(g, from).out_edges ELSE {}
    IN  IF to \notin out THEN {Outcome(g, cnt, KeyError_EdgeMissing, <<>>)}
        ELSE {Outcome([g EXCEPT ![Index(g, from)].out_edges = @ \ {to}], cnt, NoError, <<>>)}

\* delete_edge(from_task, to_task); self.graph.get(from, TaskGraphNode(from))
\* reads an empty out_edges when from is no key
delete_edge(g, cnt, from, to) ==
    LET out == IF from \in Keys(g) THEN Node(g, from).out_edges ELSE {}
    IN  IF to \notin out THEN {Outcome(g, cnt, KeyError_EdgeMissing, <<>>)}
        ELSE LET g1 == [g EXCEPT ![Index(g, from)].out_edges = @ \ {to}]
             IN  IF to \notin Keys(g) \/ from \notin Node(g1, to).in_edges
                 THEN {Outcome(g1, cnt, KeyError_Lookup, <<>>)}
                 ELSE {Outcome([g1 EXCEPT ![Index(g1, to)].in_edges = @ \ {from}],
                               cnt, NoError, <<>>)}

\* Faulty variant of reset_graph: the mapping is emptied, the count is kept.
reset_graph_KeepCount(g, cnt) == {Outcome(<<>>, cnt, NoError, <<>>)}

\* reset_graph(): __init__ again
reset_graph(g, cnt) == {Outcome(<<>>, 0, NoError, <<>>)}

---------------------------------------------------------------------------
(* all_downstreams *)

\* Faulty variant of VisitLoop: the stack is extended with in_edges.
RECURSIVE VisitLoopUpstream(_, _, _)
VisitLoopUpstream(g, nodes_seen, nodes_to_visit) ==
    IF nodes_to_visit = <<>> THEN {[err |-> NoError, seen |-> nodes_seen]}
    ELSE LET p == Pop(nodes_to_visit)
         IN  IF p.task_name \in nodes_seen THEN VisitLoopUpstream(g, nodes_seen, p.rest)
             ELSE IF p.task_name \notin Keys(g)
             THEN {[err |-> KeyError_Lookup, seen |-> nodes_seen \cup {p.task_name}]}
             ELSE UNION {VisitLoopUpstream(g, nodes_seen \cup {p.task_name}, p.rest \o order)
                         : order \in IterationOrders(Node(g, p.task_name).in_edges)}

\* the visit loop: nodes_to_visit is a stack, extended with the out_edges of
\* each node seen for the first time; yields nodes_seen, or a failed lookup
RECURSIVE VisitLoop(_, _, _)
VisitLoop(g, nodes_seen, nodes_to_visit) ==
    IF nodes_to_visit = <<>> THEN {[err |-> NoError, seen |-> nodes_seen]}
    ELSE LET p == Pop(nodes_to_visit)
         IN  IF p.task_name \in nodes_seen THEN VisitLoop(g, nodes_seen, p.rest)
             ELSE IF p.task_name \notin Keys(g)
             THEN {[err |-> KeyError_Lookup, seen |-> nodes_seen \cup {p.task_name}]}
             ELSE UNION {VisitLoop(g, nodes_seen \cup {p.task_name}, p.rest \o order)
                         : order \in IterationOrders(Node(g, p.task_name).out_edges)}

\* [x for x in seq if x in keep]
RECURSIVE Filter(_, _)
Filter(seq, keep) ==
    IF seq = <<>> THEN <<>>
    ELSE (IF Head(seq) \in keep THEN <<Head(seq)>> ELSE <<>>) \o Filter(Tail(seq), keep)

\* Faulty variant of all_downstreams: the start node is not counted as seen.
all_downstreams_Strict(g, cnt, name) ==
    IF name \notin Keys(g) THEN {Outcome(g, cnt, KeyError_NodeMissing, <<>>)}
    ELSE UNION {
           IF v.err # NoError THEN {Outcome(g, cnt, v.err, <<>>)}
           ELSE {IF o.err # NoError THEN Outcome(g, cnt, o.err, <<>>)
                 ELSE Outcome(g, cnt, NoError, Filter(o.ret, v.seen \ {name}))
                 : o \in topological_sort(g)}
           : v \in VisitLoop(g, {}, <<name>>)}

\* all_downstreams(task) with task.name = name
all_downstreams(g, cnt, name) ==
    IF name \notin Keys(g) THEN {Outcome(g, cnt, KeyError_NodeMissing, <<>>)}
    ELSE UNION {
           IF v.err # NoError THEN {Outcome(g, cnt, v.err, <<>>)}
           ELSE {IF o.err # NoError THEN Outcome(g, cnt, o.err, <<>>)
                 ELSE Outcome(g, cnt, NoError, Filter(o.ret, v.seen))
                 : o \in topological_sort(g)}
           : v \in VisitLoop(g, {}, <<name>>)}

---------------------------------------------------------------------------
(* The calls as actions *)

\* number of edges stored in the out_edges sets
EdgeCount(g) ==
    Cardinality(UNION {{<<i, n>> : n \in g[i].out_edges} : i \in 1..Len(g)})

\* what call, err, ret and prev hold while no call result is pending
NoCall == [op |-> "none", args |-> <<>>]
NoPrev == [graph |-> <<>>, node_count |-> 0]

\* boot while no bootstrap round is under way
NoBoot == [alpha |-> None, omega |-> None, output |-> "", first |-> None]

\* the variables of run() while no run() call is under way
NoRun ==
    /\ input_dict = <<>>
    /\ round = 0
    /\ waiting_list = <<>>
    /\ cursor = 0
    /\ boot = NoBoot
    /\ round_graph = <<>>
    /\ execs = <<>>
    /\ interference = 0

\* run() is over (or was never called): its variables are dropped
ResetRun ==
    /\ input_dict' = <<>>
    /\ round' = 0
    /\ waiting_list' = <<>>
    /\ cursor' = 0
    /\ boot' = NoBoot
    /\ round_graph' = <<>>
    /\ execs' = <<>>
    /\ interference' = 0

\* the task objects stored in the nodes of g: those of t that are still
\* nodes, and an object of class `class` under every new key
StoredTasks(t, g, class) ==
    [n \in Keys(g) |-> IF n \in DOMAIN t THEN t[n] ELSE class]

\* the call `op(args)` ends with outcome o; the tasks these calls are made
\* with are Task objects, as in test_taskGraph
Finish(op, args, o) ==
    /\ UNCHANGED rvars
    /\ tasks' = StoredTasks(tasks, o.graph, "Task")
    /\ pc' = "returned"
    /\ prev' = [graph |-> graph, node_count |-> node_count]
    /\ call' = [op |-> op, args |-> args]
    /\ graph' = o.graph
    /\ node_count' = o.node_count
    /\ err' = o.err
    /\ ret' = o.ret

Init ==
    /\ graph = <<>>
    /\ node_count = 0
    /\ call = NoCall
    /\ err = NoError
    /\ ret = <<>>
    /\ prev = NoPrev
    /\ pc = "ready"
    /\ tasks = <<>>
    /\ NoRun

\* control is back in the caller: the graph awaits the next call
Return ==
    /\ pc = "returned"
    /\ pc' = "ready"
    /\ call' = NoCall
    /\ err' = NoError
    /\ ret' = <<>>
    /\ prev' = NoPrev
    /\ ResetRun
    /\ UNCHANGED <<graph, node_count, tasks>>

AddNode ==
    /\ pc = "ready"
    /\ \E name \in TaskNames :
           \E o \in add_node(graph, node_count, name) :
               /\ o.err = NoError => Len(o.graph) <= MaxNodes
               /\ Finish("add_node", <<name>>, o)

DeleteNode ==
    /\ pc = "ready"
    /\ \E name \in TaskNames :
           \E o \in delete_node(graph, node_count, name) :
               Finish("delete_node", <<name>>, o)

AddEdge ==
    /\ pc = "ready"
    /\ \E from \in TaskNames, to \in TaskNames :
           \E o \in add_edge(graph, node_count, from, to) :
               /\ o.err = NoError => EdgeCount(o.graph) <= MaxEdges
               /\ Finish("add_edge", <<from, to>>, o)

DeleteEdge ==
    /\ pc = "ready"
    /\ \E from \in TaskNames, to \in TaskNames :
           \E o \in delete_edge(graph, node_count, from, to) :
               Finish("delete_edge", <<from, to>>, o)

ResetGraph ==
    /\ pc = "ready"
    /\ \E o \in reset_graph(graph, node_count) :
           Finish("reset_graph", <<>>, o)

TopologicalSort ==
    /\ pc = "ready"
    /\ \E o \in topological_sort(graph) :
           Finish("topological_sort", <<>>, Outcome(graph, node_count, o.err, o.ret))

Validate ==
    /\ pc = "ready"
    /\ \E o \in validate(graph) :
           Finish("validate", <<>>, Outcome(graph, node_count, o.err, o.ret))

AllDownstreams ==
    /\ pc = "ready"
    /\ \E name \in TaskNames :
           \E o \in all_downstreams(graph, node_count, name) :
               Finish("all_downstreams", <<name>>, o)

\* Calls made one right after the other by one caller; a call that raises
\* ends the sequence, leaving the graph as built so far.
RECURSIVE RunCalls(_, _)
RunCalls(o, calls) ==
    IF calls = <<>> \/ o.err # NoError THEN {o}
    ELSE LET c == Head(calls)
         IN  UNION {RunCalls(n, Tail(calls))
                    : n \in IF c.op = "add_node"
                            THEN add_node(o.graph, o.node_count, c.args[1])
                            ELSE IF c.op = "delete_node"
                            THEN delete_node(o.graph, o.node_count, c.args[1])
                            ELSE add_edge(o.graph, o.node_count, c.args[1], c.args[2])}

\* add_node(task) immediately followed by delete_node(task)
AddThenDeleteNode ==
    /\ pc = "ready"
    /\ \E name \in TaskNames :
           \E o \in RunCalls(Outcome(graph, node_count, NoError, <<>>),
                             << [op |-> "add_node", args |-> <<name>>],
                                [op |-> "delete_node", args |-> <<name>>] >>) :
               Finish("add_node;delete_node", <<name>>, o)

\* test_taskGraph() of main.py up to its last add_edge: a fresh TaskGraph,
\* four add_node calls and three add_edge calls.
TestTaskGraphCalls ==
    << [op |-> "add_node", args |-> <<"task_1">>],
       [op |-> "add_node", args |-> <<"task_2">>],
       [op |-> "add_node", args |-> <<"task_3">>],
       [op |-> "add_node", args |-> <<"task_4">>],
       [op |-> "add_edge", args |-> <<"task_1", "task_2">>],
       [op |-> "add_edge", args |-> <<"task_1", "task_4">>],
       [op |-> "add_edge", args |-> <<"task_2", "task_3">>] >>

TestTaskGraph ==
    /\ pc = "ready"
    /\ \E o \in RunCalls(Outcome(<<>>, 0, NoError, <<>>), TestTaskGraphCalls) :
           Finish("test_taskGraph", <<>>, o)

Next ==
    \/ TestTaskGraph
    \/ AddNode
    \/ DeleteNode
    \/ AddThenDeleteNode
    \/ AddEdge
    \/ DeleteEdge
    \/ ResetGraph
    \/ TopologicalSort
    \/ Validate
    \/ AllDownstreams
    \/ Return

Spec == Init /\ [][Next]_vars

\* The calls that build and empty the graph, and the two that return names
\* in scheduling order.
NextStructure ==
    \/ TestTaskGraph
    \/ AddNode
    \/ DeleteNode
    \/ AddEdge
    \/ DeleteEdge
    \/ ResetGraph
    \/ TopologicalSort
    \/ AllDownstreams
    \/ Return

SpecStructure == Init /\ [][NextStructure]_vars

\* The calls that change the graph.
NextMutation ==
    \/ AddNode
    \/ DeleteNode
    \/ AddEdge
    \/ DeleteEdge
    \/ ResetGraph
    \/ Return

SpecMutation == Init /\ [][NextMutation]_vars

---------------------------------------------------------------------------
(* run(max_rounds): the round loop.  Each step below is one stretch of     *)
(* run() between two calls it makes; the graph mutations of the bootstrap  *)
(* splice are one step each.  run() is a coroutine: it is suspended at     *)
(* each `await ...start(...)`, and while it is, other coroutines of the    *)
(* event loop can call the graph's mutations.                              *)

\* The task objects of task.py a caller stores before run(): AlphaTask() and
\* OmegaTask() under their default names as in main(), a Task, and a plain
\* Task that carries the name of the Source.
TaskObjects ==
    {[name |-> "alpha_task", class |-> "AlphaTask"],
     [name |-> "omega_task", class |-> "OmegaTask"],
     [name |-> "task_1", class |-> "Task"],
     [name |-> "alpha_task", class |-> "Task"]}

\* A Source of the caller's own: an instance of a subclass of AlphaTask whose
\* start() returns the three values run() destructures at line 199.
CallerSource == [name |-> "alpha_task", class |-> "AlphaTaskSubclass"]

\* the names of those objects
RunNames == {t.name : t \in TaskObjects}

\* first_task_name as the Source's start() may hand it back
DerivedNames == {"task_1", "task_2", "omega_task", None}

\* the strings a start() call may hand back as its output
Outputs == {"hello", "world"}

\* run() is called with max_rounds in 0..MaxRounds
MaxRounds == 2

\* other coroutines make at most this many mutations during one run() call
MaxInterference == 1

\* type(self.graph[name].task)
TaskClass(name) == tasks[name]

\* isinstance(task, AlphaTask)
IsAlphaTask(class) == class \in {"AlphaTask", CallerSource.class}

\* What `await task.start(...)` evaluates to when a start() of task.py
\* returns.  AlphaTask.start returns a TaskOutput, a pydantic model of two
\* fields (task_type, content), or None when the user types exit;
\* OmegaTask.start returns a TaskOutput; Task.start does not return: it
\* raises at its line 166, where it calls get_final_result() on the Actor,
\* which has no such method.  None of them returns three values.
StartShapes(class) ==
    IF class = "AlphaTask" THEN {"TaskOutput", "None"}
    ELSE IF class = "OmegaTask" THEN {"TaskOutput"}
    ELSE {}

\* the start() of the caller's Source returns the three values of line 199
ReturnsTriple(class) == class = CallerSource.class

\* exceptions raised inside run()
TypeError_StartArgs == "TypeError: start() missing 1 required positional argument: 'task_input'"
CollaboratorError == "Exception raised by start()"
ValueError_Unpack == "ValueError: not enough values to unpack (expected 3, got 2)"
TypeError_UnpackNone == "TypeError: cannot unpack non-iterable NoneType object"
ValidationError_TaskName == "ValidationError: 1 validation error for Task"
KeyError_NoInput(name) == "KeyError: Task " \o name \o " has no input."

\* `a, b, c = value`: the exception the destructuring raises, if any
UnpackError(shape) ==
    IF shape = "triple" THEN NoError
    ELSE IF shape = "TaskOutput" THEN ValueError_Unpack
    ELSE TypeError_UnpackNone

\* the entry of execs for a start() call that has been made and not yet
\* resumed
PendingStart(node, class, input) ==
    [node |-> node, class |-> class, input |-> input, shape |-> "pending",
     output |-> "", derived |-> None, returned |-> FALSE]

\* execs with its last entry, the pending call, completed: start() returned
\* a value of this shape carrying output and the derived task name
Resumed(log, shape, output, derived) ==
    [log EXCEPT ![Len(log)] =
        [@ EXCEPT !.shape = shape, !.output = output, !.derived = derived,
                  !.returned = TRUE]]

\* execs with its last entry, the pending call, ended by an exception of
\* start()
Failed(log) == [log EXCEPT ![Len(log)] = [@ EXCEPT !.shape = "raised"]]

\* input_dict[name] = value
PutInput(d, name, value) ==
    [n \in (DOMAIN d) \cup {name} |-> IF n = name THEN value ELSE d[n]]

\* first_task = Task(name=first_task_name); self.add_node(task=first_task).
\* Task.name is a pydantic str field: Task(name=None) is rejected.
NewTaskNode(g, cnt, name) ==
    IF name = None THEN {Outcome(g, cnt, ValidationError_TaskName, <<>>)}
    ELSE add_node(g, cnt, name)

\* one mutation call made by run()
ApplyCall(g, cnt, c) ==
    IF c.op = "Task;add_node" THEN NewTaskNode(g, cnt, c.args[1])
    ELSE IF c.op = "add_edge" THEN add_edge(g, cnt, c.args[1], c.args[2])
    ELSE delete_edge(g, cnt, c.args[1], c.args[2])

\* Faulty variant of BootCalls: the direct edge is deleted before the
\* replacement path is inserted.
BootCallsDeleteFirst(b) ==
    << [op |-> "delete_edge", args |-> <<b.alpha, b.omega>>],
       [op |-> "Task;add_node", args |-> <<b.first>>],
       [op |-> "add_edge", args |-> <<b.alpha, b.first>>],
       [op |-> "add_edge", args |-> <<b.first, b.omega>>] >>

\* the splice of the bootstrap round, in the order run() makes the calls
BootCalls(b) ==
    << [op |-> "Task;add_node", args |-> <<b.first>>],
       [op |-> "add_edge", args |-> <<b.alpha, b.first>>],
       [op |-> "add_edge", args |-> <<b.first, b.omega>>],
       [op |-> "delete_edge", args |-> <<b.alpha, b.omega>>] >>

\* the test that selects the bootstrap round
IsBootstrapRound(g, cnt) == cnt = 2

\* run() raises e: the exception reaches the caller of run()
Raise(e) ==
    /\ pc' = "returned"
    /\ err' = e
    /\ ret' = <<>>

\* add_node(task=t) by the caller, before run()
StoreTask(t) ==
    \E o \in add_node(graph, node_count, t.name) :
        /\ o.err = NoError
        /\ Len(o.graph) <= MaxNodes
        /\ graph' = o.graph
        /\ node_count' = o.node_count
        /\ tasks' = StoredTasks(tasks, o.graph, t.class)

\* The caller builds the graph before run(), as main() does.
SetupAddNode ==
    /\ pc = "ready"
    /\ \E t \in TaskObjects : StoreTask(t)
    /\ UNCHANGED <<call, err, ret, prev, pc, rvars>>

\* The caller stores a Source of its own.
SetupAddCallerSource ==
    /\ pc = "ready"
    /\ StoreTask(CallerSource)
    /\ UNCHANGED <<call, err, ret, prev, pc, rvars>>

SetupAddEdge ==
    /\ pc = "ready"
    /\ \E from \in RunNames, to \in RunNames :
           \E o \in add_edge(graph, node_count, from, to) :
               /\ o.err = NoError
               /\ EdgeCount(o.graph) <= MaxEdges
               /\ graph' = o.graph
               /\ node_count' = o.node_count
    /\ UNCHANGED <<call, err, ret, prev, pc, rvars, tasks>>

\* run(max_rounds) is entered: input_dict = OrderedDict()
RunStart ==
    /\ pc = "ready"
    /\ \E max_rounds \in 0..MaxRounds :
           call' = [op |-> "run", args |-> <<max_rounds>>]
    /\ prev' = [graph |-> graph, node_count |-> node_count]
    /\ pc' = "round_begin"
    /\ err' = NoError
    /\ ret' = <<>>
    /\ input_dict' = <<>>
    /\ round' = 0
    /\ UNCHANGED <<graph, node_count, tasks, waiting_list, cursor, boot, round_graph,
                   execs, interference>>

\* range(max_rounds) is exhausted: run() returns None
RunFinish ==
    /\ pc = "round_begin"
    /\ round = call.args[1]
    /\ pc' = "returned"
    /\ UNCHANGED <<graph, node_count, tasks, call, err, ret, prev, rvars>>

\* A round begins: topological_sort(), then the node_count == 2 test.
RoundBegin ==
    /\ pc = "round_begin"
    /\ round < call.args[1]
    /\ \E o \in topological_sort(graph) :
           IF o.err # NoError
           THEN /\ Raise(o.err)
                /\ round_graph' = graph
                /\ UNCHANGED <<waiting_list, cursor, boot, execs>>
           ELSE /\ waiting_list' = o.ret
                /\ round_graph' = graph
                /\ execs' = <<>>
                /\ UNCHANGED <<err, ret>>
                /\ IF IsBootstrapRound(graph, node_count)
                   THEN /\ pc' = "boot_start"
                        /\ boot' = [alpha |-> o.ret[1], omega |-> o.ret[Len(o.ret)],
                                    output |-> "", first |-> None]
                        /\ cursor' = 0
                   ELSE /\ pc' = "steady"
                        /\ boot' = NoBoot
                        /\ cursor' = 1
    /\ UNCHANGED <<graph, node_count, tasks, call, prev, input_dict, round, interference>>

\* alpha_task.start() is called without task_input; only AlphaTask.start
\* takes no argument, so the call itself raises on any other object.
BootStartWrongKind ==
    /\ pc = "boot_start"
    /\ ~IsAlphaTask(TaskClass(boot.alpha))
    /\ Raise(TypeError_StartArgs)
    /\ UNCHANGED <<graph, node_count, tasks, call, prev, rvars>>

\* alpha_task.start() is called and run() is suspended in the await
BootCall ==
    /\ pc = "boot_start"
    /\ IsAlphaTask(TaskClass(boot.alpha))
    /\ execs' = Append(execs, PendingStart(boot.alpha, TaskClass(boot.alpha), ""))
    /\ pc' = "boot_await"
    /\ UNCHANGED <<graph, node_count, tasks, call, err, ret, prev, input_dict, round,
                   waiting_list, cursor, boot, round_graph, interference>>

\* await alpha_task.start() raises
BootStartFails ==
    /\ pc = "boot_await"
    /\ Raise(CollaboratorError)
    /\ execs' = Failed(execs)
    /\ UNCHANGED <<graph, node_count, tasks, call, prev, input_dict, round,
                   waiting_list, cursor, boot, round_graph, interference>>

\* await alpha_task.start() hands back a TaskOutput or None: the
\* destructuring of line 199 raises and nothing is assigned
BootUnpackFails ==
    /\ pc = "boot_await"
    /\ \E shape \in StartShapes(execs[Len(execs)].class) :
           /\ Raise(UnpackError(shape))
           /\ IF shape = "None"
              THEN execs' = Resumed(execs, shape, "", None)
              ELSE \E output \in Outputs, first \in DerivedNames \ {None} :
                       execs' = Resumed(execs, shape, output, first)
    /\ UNCHANGED <<graph, node_count, tasks, call, prev, input_dict, round,
                   waiting_list, cursor, boot, round_graph, interference>>

\* await alpha_task.start() hands back (alpha_task_output, first_task_name,
\* _); input_dict[omega_task_name] = alpha_task_output
BootStart ==
    /\ pc = "boot_await"
    /\ ReturnsTriple(execs[Len(execs)].class)
    /\ \E output \in Outputs, first \in DerivedNames :
           /\ execs' = Resumed(execs, "triple", output, first)
           /\ boot' = [boot EXCEPT !.output = output, !.first = first]
           /\ input_dict' = PutInput(input_dict, boot.omega, output)
    /\ pc' = "boot_splice"
    /\ cursor' = 1
    /\ UNCHANGED <<graph, node_count, tasks, call, err, ret, prev, round, waiting_list,
                   round_graph, interference>>

\* the next call of the splice: Task() and add_node, add_edge, add_edge,
\* delete_edge
BootSplice ==
    /\ pc = "boot_splice"
    /\ cursor <= Len(BootCalls(boot))
    /\ \E o \in ApplyCall(graph, node_count, BootCalls(boot)[cursor]) :
           /\ graph' = o.graph
           /\ node_count' = o.node_count
           /\ tasks' = StoredTasks(tasks, o.graph, "Task")
           /\ IF o.err # NoError
              THEN Raise(o.err) /\ UNCHANGED cursor
              ELSE /\ cursor' = cursor + 1
                   /\ UNCHANGED <<pc, err, ret>>
    /\ UNCHANGED <<call, prev, input_dict, round, waiting_list, boot, round_graph,
                   execs, interference>>

\* input_dict[first_task_name] = alpha_task_output ends the bootstrap round
BootRecord ==
    /\ pc = "boot_splice"
    /\ cursor > Len(BootCalls(boot))
    /\ input_dict' = PutInput(input_dict, boot.first, boot.output)
    /\ round' = round + 1
    /\ pc' = "round_begin"
    /\ UNCHANGED <<graph, node_count, tasks, call, err, ret, prev, waiting_list, cursor,
                   boot, round_graph, execs, interference>>

\* the node the steady-state loop is at
current_task_name == waiting_list[cursor]

\* isinstance(current_task, AlphaTask): continue
SteadySkip ==
    /\ pc = "steady"
    /\ cursor <= Len(waiting_list)
    /\ current_task_name \in Keys(graph)
    /\ IsAlphaTask(TaskClass(current_task_name))
    /\ cursor' = cursor + 1
    /\ UNCHANGED <<graph, node_count, tasks, call, err, ret, prev, pc, input_dict, round,
                   waiting_list, boot, round_graph, execs, interference>>

\* Faulty variant of SteadyNoInput: a missing input is read as the empty
\* string and the task is started.
SteadyNoInputLenient ==
    /\ pc = "steady"
    /\ cursor <= Len(waiting_list)
    /\ current_task_name \in Keys(graph)
    /\ ~IsAlphaTask(TaskClass(current_task_name))
    /\ current_task_name \notin DOMAIN input_dict
    /\ execs' = Append(execs,
           PendingStart(current_task_name, TaskClass(current_task_name), ""))
    /\ pc' = "steady_await"
    /\ UNCHANGED <<graph, node_count, tasks, call, err, ret, prev, input_dict, round,
                   waiting_list, cursor, boot, round_graph, interference>>

\* input_dict[current_task_name] raises KeyError
SteadyNoInput ==
    /\ pc = "steady"
    /\ cursor <= Len(waiting_list)
    /\ current_task_name \in Keys(graph)
    /\ ~IsAlphaTask(TaskClass(current_task_name))
    /\ current_task_name \notin DOMAIN input_dict
    /\ Raise(KeyError_NoInput(current_task_name))
    /\ UNCHANGED <<graph, node_count, tasks, call, prev, rvars>>

\* current_task.start(task_input=...) is called and run() is suspended in
\* the await
SteadyCall ==
    /\ pc = "steady"
    /\ cursor <= Len(waiting_list)
    /\ current_task_name \in Keys(graph)
    /\ ~IsAlphaTask(TaskClass(current_task_name))
    /\ current_task_name \in DOMAIN input_dict
    /\ execs' = Append(execs,
           PendingStart(current_task_name, TaskClass(current_task_name),
                        input_dict[current_task_name]))
    /\ pc' = "steady_await"
    /\ UNCHANGED <<graph, node_count, tasks, call, err, ret, prev, input_dict, round,
                   waiting_list, cursor, boot, round_graph, interference>>

\* await current_task.start(task_input=...) raises.  A task that has an input
\* is a Task: it follows the Source in every order, the Sink follows it, and
\* its start() raises.  So no start() call of a steady-state round returns to
\* run(), and the destructuring of line 219 and the copy to the successors
\* of lines 222-223 are not reached.
SteadyStartFails ==
    /\ pc = "steady_await"
    /\ Raise(CollaboratorError)
    /\ execs' = Failed(execs)
    /\ UNCHANGED <<graph, node_count, tasks, call, prev, input_dict, round,
                   waiting_list, cursor, boot, round_graph, interference>>

\* waiting_list is exhausted: the round is complete
RoundEnd ==
    /\ pc = "steady"
    /\ cursor > Len(waiting_list)
    /\ round' = round + 1
    /\ pc' = "round_begin"
    /\ UNCHANGED <<graph, node_count, tasks, call, err, ret, prev, input_dict,
                   waiting_list, cursor, boot, round_graph, execs, interference>>

\* run() is suspended in an await and another coroutine may run
Suspended ==
    /\ pc \in {"boot_await", "steady_await"}
    /\ interference < MaxInterference

\* what a successful mutation by another coroutine leaves
Interfere(o, class) ==
    /\ o.err = NoError
    /\ graph' = o.graph
    /\ node_count' = o.node_count
    /\ tasks' = StoredTasks(tasks, o.graph, class)
    /\ interference' = interference + 1
    /\ UNCHANGED <<call, err, ret, prev, pc, input_dict, round, waiting_list, cursor,
                   boot, round_graph, execs>>

\* Mutations made by other coroutines while run() is suspended.
ConcurrentAddNode ==
    /\ Suspended
    /\ \E t \in TaskObjects :
           \E o \in add_node(graph, node_count, t.name) :
               Len(o.graph) <= MaxNodes /\ Interfere(o, t.class)

ConcurrentDeleteNode ==
    /\ Suspended
    /\ \E name \in Keys(graph) :
           \E o \in delete_node(graph, node_count, name) : Interfere(o, "Task")

ConcurrentAddEdge ==
    /\ Suspended
    /\ \E from \in Keys(graph), to \in Keys(graph) :
           \E o \in add_edge(graph, node_count, from, to) :
               EdgeCount(o.graph) <= MaxEdges /\ Interfere(o, "Task")

ConcurrentDeleteEdge ==
    /\ Suspended
    /\ \E from \in Keys(graph), to \in Keys(graph) :
           \E o \in delete_edge(graph, node_count, from, to) : Interfere(o, "Task")

ConcurrentResetGraph ==
    /\ Suspended
    /\ graph # <<>>
    /\ \E o \in reset_graph(graph, node_count) : Interfere(o, "Task")

\* run() on graphs that hold the task objects of task.py.  No start() of
\* task.py returns three values, so every bootstrap round ends at line 199
\* and no steady-state round has an input to start a task with.
NextRunRepository ==
    \/ SetupAddNode
    \/ SetupAddEdge
    \/ RunStart
    \/ RunFinish
    \/ RoundBegin
    \/ BootStartWrongKind
    \/ BootCall
    \/ BootStartFails
    \/ BootUnpackFails
    \/ SteadySkip
    \/ SteadyNoInput
    \/ RoundEnd
    \/ ConcurrentAddNode
    \/ ConcurrentDeleteNode
    \/ ConcurrentAddEdge
    \/ ConcurrentDeleteEdge
    \/ ConcurrentResetGraph
    \/ Return

SpecRunRepository == Init /\ [][NextRunRepository]_vars

\* run() on graphs that may also hold a Source of the caller's own.
NextRun ==
    \/ NextRunRepository
    \/ SetupAddCallerSource
    \/ BootStart
    \/ BootSplice
    \/ BootRecord
    \/ SteadyCall
    \/ SteadyStartFails

SpecRun == Init /\ [][NextRun]_vars

---------------------------------------------------------------------------
(* Graph notions the properties are stated in, defined without reference   *)
(* to the algorithms above                                                 *)

\* the edges stored in the out_edges sets
Edges(g) == UNION {{<<g[i].name, v>> : v \in g[i].out_edges} : i \in 1..Len(g)}

\* names one edge away from a name of S
Successors(g, S) == UNION {g[i].out_edges : i \in {j \in 1..Len(g) : g[j].name \in S}}

\* names reachable from S by at least one edge, within k more rounds
RECURSIVE Closure(_, _, _)
Closure(g, S, k) ==
    IF k = 0 THEN S
    ELSE Closure(g, S \cup Successors(g, S), k - 1)

\* names reachable from v along one or more edges
Descendants(g, v) == Closure(g, Successors(g, {v}), Len(g))

\* names reachable from v along zero or more edges
ReachableFrom(g, v) == {v} \cup Descendants(g, v)

\* the graph holds a directed cycle (a self-loop is one)
HasCycle(g) == \E v \in Keys(g) : v \in Descendants(g, v)

\* the edge from -> to would close a cycle
WouldCreateCycle(g, from, to) == from = to \/ from \in Descendants(g, to)

\* position of name x in the sequence of names s (0 when absent)
Position(s, x) == IF \E i \in 1..Len(s) : s[i] = x
                  THEN CHOOSE i \in 1..Len(s) : s[i] = x ELSE 0

\* s lists every element of S exactly once
IsPermutationOf(s, S) ==
    /\ Len(s) = Cardinality(S)
    /\ {s[i] : i \in 1..Len(s)} = S

\* every edge between two names of s goes forward in s
RespectsEdges(g, s) ==
    \A e \in Edges(g) :
        (Position(s, e[1]) > 0 /\ Position(s, e[2]) > 0) => Position(s, e[1]) < Position(s, e[2])

\* a call of op has just ended
Returned(op) == pc = "returned" /\ call.op = op

\* the graph of test_taskGraph: task_1 -> task_2, task_1 -> task_4, task_2 -> task_3
IsTestGraph(g) ==
    /\ Keys(g) = {"task_1", "task_2", "task_3", "task_4"}
    /\ Edges(g) = {<<"task_1", "task_2">>, <<"task_1", "task_4">>, <<"task_2", "task_3">>}

\* the exceptions the specification calls UnknownNodeError and CycleError
UnknownNodeError == {KeyError_NodeMissing, KeyError_EndpointMissing}
CycleError == Exception_Cycle
AcyclicViolation == ValueError_NotAcyclic

---------------------------------------------------------------------------
(* Claims *)

\* C1: an add_edge(from, to) between two existing nodes that would create a
\* directed cycle (from = to, or to already an ancestor of from) fails with
\* CycleError and leaves every node's out_edges and in_edges as they were.
C1_CycleRejected ==
    (/\ Returned("add_edge")
     /\ call.args[1] \in Keys(prev.graph)
     /\ call.args[2] \in Keys(prev.graph)
     /\ WouldCreateCycle(prev.graph, call.args[1], call.args[2]))
    => (err = CycleError /\ graph = prev.graph)

\* C2: after any sequence of calls the graph contains no directed cycle.
C2_Acyclic == ~HasCycle(graph)

\* C3: on an acyclic graph topological_sort returns every node name exactly
\* once with u before v for every edge (u, v); on the graph of
\* test_taskGraph the result starts with task_1.
C3_TopologicalOrder ==
    (Returned("topological_sort") /\ ~HasCycle(graph))
    => /\ err = NoError
       /\ IsPermutationOf(ret, Keys(graph))
       /\ RespectsEdges(graph, ret)
       /\ IsTestGraph(graph) => ret[1] = "task_1"

\* C3 witness: topological_sort has returned on the graph of test_taskGraph,
\* with task_4 scheduled before task_2.
C3_Witness ==
    /\ Returned("topological_sort")
    /\ IsTestGraph(graph)
    /\ err = NoError
    /\ ret = <<"task_1", "task_4", "task_2", "task_3">>

\* C4: topological_sort raises AcyclicViolation exactly when the graph holds
\* a directed cycle; validate returns true exactly when topological_sort
\* succeeds; neither changes the nodes, their edge sets or the node count.
C4_SortFailsIffCycle ==
    /\ Returned("topological_sort")
       => /\ err \in {NoError, AcyclicViolation}
          /\ (err = AcyclicViolation) <=> HasCycle(graph)
          /\ graph = prev.graph /\ node_count = prev.node_count
    /\ Returned("validate")
       => /\ err = NoError
          /\ ret[1] <=> (\E o \in topological_sort(graph) : o.err = NoError)
          /\ ret[1] <=> ~HasCycle(graph)
          /\ graph = prev.graph /\ node_count = prev.node_count

\* C4 witness: topological_sort has failed on a graph whose only cycle is a
\* self-loop.
C4_Witness ==
    /\ Returned("topological_sort")
    /\ err = AcyclicViolation
    /\ \E v \in Keys(graph) : <<v, v>> \in Edges(graph)
    /\ \A e \in Edges(graph) : e[1] # e[2] => e[1] \notin ReachableFrom(graph, e[2])

\* the graph g with node x and every edge at x left out
Excluding(g, x) ==
    LET kept == SelectSeq(g, LAMBDA n : n.name # x)
    IN  [i \in 1..Len(kept) |->
            [kept[i] EXCEPT !.out_edges = @ \ {x}, !.in_edges = @ \ {x}]]

\* every run of topological_sort on g returns a result
SortSucceeds(g) == \A o \in topological_sort(g) : o.err = NoError

\* C5: after a successful delete_node(x), x is no node, the node count is
\* one less, no remaining node names x in its edge sets, every edge not at x
\* is unchanged, and topological_sort succeeds on what remains exactly when
\* it succeeds on the graph before the call with x and x's edges left out.
C5_DeleteNode ==
    (Returned("delete_node") /\ err = NoError)
    => LET x == call.args[1]
       IN  /\ x \in Keys(prev.graph)
           /\ x \notin Keys(graph)
           /\ node_count = prev.node_count - 1
           /\ \A i \in 1..Len(graph) : x \notin graph[i].out_edges \cup graph[i].in_edges
           /\ Keys(graph) = Keys(prev.graph) \ {x}
           /\ \A n \in Keys(graph) :
                /\ Node(graph, n).out_edges = Node(prev.graph, n).out_edges \ {x}
                /\ Node(graph, n).in_edges = Node(prev.graph, n).in_edges \ {x}
           /\ SortSucceeds(graph) <=> SortSucceeds(Excluding(prev.graph, x))
           /\ SortSucceeds(graph) <=> ~HasCycle(Excluding(prev.graph, x))

\* C5 witness: a node with a predecessor and a successor has been deleted.
C5_Witness ==
    /\ Returned("delete_node")
    /\ err = NoError
    /\ Node(prev.graph, call.args[1]).in_edges \ {call.args[1]} # {}
    /\ Node(prev.graph, call.args[1]).out_edges \ {call.args[1]} # {}
    /\ Len(graph) >= 2

\* C6: for a name x that is not in the graph, add_node(x) immediately
\* followed by delete_node(x) restores the graph: the same nodes in the same
\* insertion order, the same edge sets, the same node count.
C6_AddDeleteRoundTrip ==
    (/\ Returned("add_node;delete_node")
     /\ call.args[1] \in Names \ Keys(prev.graph))
    => /\ err = NoError
       /\ graph = prev.graph
       /\ node_count = prev.node_count

\* C6 witness: the round trip has run on a graph that holds nodes and edges.
C6_Witness ==
    /\ Returned("add_node;delete_node")
    /\ call.args[1] \in Names \ Keys(prev.graph)
    /\ err = NoError
    /\ Len(prev.graph) >= 2
    /\ Edges(prev.graph) # {}

\* C7: on an acyclic graph all_downstreams(v), v a node, returns without
\* repetition exactly the nodes reachable from v along out_edges, u before
\* w for every edge (u, w) between two returned nodes.
C7_AllDownstreams ==
    (/\ Returned("all_downstreams")
     /\ call.args[1] \in Keys(graph)
     /\ ~HasCycle(graph))
    => /\ err = NoError
       /\ IsPermutationOf(ret, ReachableFrom(graph, call.args[1]))
       /\ RespectsEdges(graph, ret)

\* C7 witness: all_downstreams has returned three or more names, with some
\* node of the graph left out.
C7_Witness ==
    /\ Returned("all_downstreams")
    /\ err = NoError
    /\ ~HasCycle(graph)
    /\ Len(ret) >= 3
    /\ Len(ret) < Len(graph)

\* C8: all_downstreams and delete_node given a name that is no node, and
\* add_edge given an endpoint that is no node, fail with UnknownNodeError
\* and leave the graph unchanged.
C8_UnknownNode ==
    /\ (\/ Returned("all_downstreams")
        \/ Returned("delete_node"))
       => (call.args[1] \notin Keys(prev.graph)
           => /\ err \in UnknownNodeError
              /\ graph = prev.graph /\ node_count = prev.node_count)
    /\ Returned("add_edge")
       => ((call.args[1] \notin Keys(prev.graph) \/ call.args[2] \notin Keys(prev.graph))
           => /\ err \in UnknownNodeError
              /\ graph = prev.graph /\ node_count = prev.node_count)

\* C8 witness: add_edge has been refused for a `to` that is no node while
\* `from` is one.
C8_Witness ==
    /\ Returned("add_edge")
    /\ call.args[1] \in Keys(prev.graph)
    /\ call.args[2] \notin Keys(prev.graph)
    /\ err \in UnknownNodeError

\* C9: add_node fails and changes nothing when the name is already a node
\* or the task has no name; otherwise it appends a node with empty edge
\* sets and raises the node count by one; names stay unique.
C9_AddNode ==
    /\ Returned("add_node")
       => LET x == call.args[1]
          IN  IF x = None \/ x \in Keys(prev.graph)
              THEN /\ err \in {ValueError_NameNone, KeyError_NodeExists}
                   /\ graph = prev.graph
                   /\ node_count = prev.node_count
              ELSE /\ err = NoError
                   /\ graph = Append(prev.graph, [name |-> x, out_edges |-> {}, in_edges |-> {}])
                   /\ node_count = prev.node_count + 1
    /\ Cardinality(Keys(graph)) = Len(graph)

\* C9 witness: add_node has been refused for a name that is already a node.
C9_Witness ==
    /\ Returned("add_node")
    /\ call.args[1] \in Keys(prev.graph)
    /\ err = KeyError_NodeExists
    /\ Len(graph) >= 2

\* C10: every name in any node's out_edges or in_edges is a node of the
\* graph.
C10_NoDanglingEdge ==
    \A i \in 1..Len(graph) : graph[i].out_edges \cup graph[i].in_edges \subseteq Keys(graph)

\* C10 witness: a node with edges has been deleted and other nodes remain.
C10_Witness ==
    /\ Returned("delete_node")
    /\ err = NoError
    /\ Node(prev.graph, call.args[1]).in_edges \cup Node(prev.graph, call.args[1]).out_edges # {}
    /\ Len(graph) >= 1

\* the exception the specification calls UnknownEdgeError
UnknownEdgeError == KeyError_EdgeMissing

\* C11: delete_edge(from, to) fails with UnknownEdgeError and changes
\* nothing when to is not in from's out_edges (so also when from or to is no
\* node); otherwise it removes to from from's out_edges and from from to's
\* in_edges and changes nothing else.
C11_DeleteEdge ==
    Returned("delete_edge")
    => LET from == call.args[1]
           to == call.args[2]
       IN  IF <<from, to>> \notin Edges(prev.graph)
           THEN /\ err = UnknownEdgeError
                /\ graph = prev.graph
                /\ node_count = prev.node_count
           ELSE /\ err = NoError
                /\ node_count = prev.node_count
                /\ Len(graph) = Len(prev.graph)
                /\ \A i \in 1..Len(graph) :
                     /\ graph[i].name = prev.graph[i].name
                     /\ graph[i].out_edges =
                          IF graph[i].name = from THEN prev.graph[i].out_edges \ {to}
                          ELSE prev.graph[i].out_edges
                     /\ graph[i].in_edges =
                          IF graph[i].name = to THEN prev.graph[i].in_edges \ {from}
                          ELSE prev.graph[i].in_edges

\* C11 witness: an edge has been deleted from a graph that keeps another edge.
C11_Witness ==
    /\ Returned("delete_edge")
    /\ err = NoError
    /\ <<call.args[1], call.args[2]>> \in Edges(prev.graph)
    /\ Edges(graph) # {}

---------------------------------------------------------------------------
(* Claims about run() *)

\* the two-node graph Source -> Sink that main() builds
IsSourceSink(g) ==
    /\ Keys(g) = {"alpha_task", "omega_task"}
    /\ Edges(g) = {<<"alpha_task", "omega_task">>}

\* the objects stored under the two names are the AlphaTask and the OmegaTask
SourceSinkTasks ==
    /\ {"alpha_task", "omega_task"} \subseteq DOMAIN tasks
    /\ tasks["alpha_task"] = "AlphaTask"
    /\ tasks["omega_task"] = "OmegaTask"

\* a run() call is under way or has just ended
InRun == call.op = "run"

\* no other coroutine has touched the graph during this run() call
Undisturbed == interference = 0

\* the Source's start() has returned raw_input and a derived task name that
\* is a name and no node of the graph the round began with
FreshFirst ==
    /\ execs # <<>>
    /\ execs[1].class = "AlphaTask"
    /\ execs[1].returned
    /\ execs[1].derived # None
    /\ execs[1].derived \notin Keys(round_graph)

\* C12: run on the graph Source -> Sink, the Source's start() returning
\* raw_input and derived_task_name with a fresh name: the bootstrap round
\* does not raise and ends with exactly three nodes, the edges
\* Source -> derived and derived -> Sink and no other, and raw_input as the
\* pending input of the new task.
C12_BootstrapSplice ==
    (InRun /\ Undisturbed /\ IsSourceSink(round_graph) /\ SourceSinkTasks /\ FreshFirst)
    => /\ err = NoError
       /\ pc \in {"round_begin", "returned"}
          => /\ Len(graph) = 3
             /\ node_count = 3
             /\ Keys(graph) = {"alpha_task", "omega_task", execs[1].derived}
             /\ Edges(graph) = {<<"alpha_task", execs[1].derived>>,
                                <<execs[1].derived, "omega_task">>}
             /\ execs[1].derived \in DOMAIN input_dict
             /\ input_dict[execs[1].derived] = execs[1].output

\* the object stored as alpha_task is an AlphaTask, of the class itself or of
\* a subclass, and the one stored as omega_task is the OmegaTask
SourceSinkObjects ==
    /\ {"alpha_task", "omega_task"} \subseteq DOMAIN tasks
    /\ IsAlphaTask(tasks["alpha_task"])
    /\ tasks["omega_task"] = "OmegaTask"

\* C13: in every state of a run() entered on the graph Source -> Sink, the
\* states between the add_node / add_edge / delete_edge calls of the splice
\* included, the Sink is reachable from the Source along out_edges, and the
\* direct edge Source -> Sink is absent only when both edges of a replacement
\* path Source -> new -> Sink are stored.  (The mutations are those of run();
\* what another coroutine does to the graph is not run()'s splice.)
C13_SinkReachable ==
    (InRun /\ Undisturbed /\ IsSourceSink(prev.graph) /\ SourceSinkObjects)
    => /\ "omega_task" \in ReachableFrom(graph, "alpha_task")
       /\ <<"alpha_task", "omega_task">> \notin Edges(graph)
          => \E new \in Keys(graph) :
                 {<<"alpha_task", new>>, <<new, "omega_task">>} \subseteq Edges(graph)

\* C13 witness: inside the splice, both replacement edges are stored and the
\* direct edge is about to be deleted.
C13_Witness ==
    /\ InRun
    /\ Undisturbed
    /\ IsSourceSink(prev.graph)
    /\ SourceSinkObjects
    /\ pc = "boot_splice"
    /\ cursor = 4
    /\ Edges(graph) = {<<"alpha_task", "omega_task">>, <<"alpha_task", boot.first>>,
                       <<boot.first, "omega_task">>}

\* the exception the specification calls MissingInputError, naming node n
MissingInputError(n) == "KeyError: Task " \o n \o " has no input."

\* the steady-state loop has taken a node that is not the Source from the
\* topological order
AtNonSource ==
    /\ pc = "steady"
    /\ cursor <= Len(waiting_list)
    /\ current_task_name \in Keys(graph)
    /\ ~IsAlphaTask(TaskClass(current_task_name))

\* start() has been called on node n in the current round
Started(n) == \E i \in DOMAIN execs : execs[i].node = n

\* C14: in a steady-state round, a node other than the Source that has no
\* pending input makes run() raise the missing-input error naming that node,
\* without start() being called on it; every start() call of a steady-state
\* round was given an input that had been recorded for its node.
C14_MissingInput ==
    /\ [][(AtNonSource /\ current_task_name \notin DOMAIN input_dict)
          => /\ pc' = "returned"
             /\ err' = MissingInputError(current_task_name)
             /\ execs' = execs]_vars
    /\ [](\A i \in DOMAIN execs :
              ~IsAlphaTask(execs[i].class)
              => /\ execs[i].node \in DOMAIN input_dict
                 /\ execs[i].input \in Outputs)

\* C14 witness: run() has raised the missing-input error for omega_task, on
\* which start() was not called.
C14_Witness ==
    /\ Returned("run")
    /\ err = MissingInputError("omega_task")
    /\ waiting_list[cursor] = "omega_task"
    /\ "omega_task" \notin DOMAIN input_dict
    /\ ~Started("omega_task")

\* the Sink's input slot holds a value
SinkResolved == "omega_task" \in DOMAIN input_dict

\* a round has just started: nothing of it has been executed yet
RoundJustStarted ==
    \/ pc \in {"boot_start", "boot_await"}
    \/ pc = "steady" /\ cursor = 1

\* C16: run(max_rounds) executes at most max_rounds rounds and starts no
\* round once the Sink's input slot is resolved; it returns normally only
\* after max_rounds rounds or with the Sink's input slot resolved; and a run
\* entered on the graph Source -> Sink in which the Source's start() has
\* returned raw_input and a fresh derived name ends in one of these two ways
\* and in no other.
C16_StopsWhenSinkResolved ==
    InRun
    => /\ round <= call.args[1]
       /\ RoundJustStarted => ~SinkResolved
       /\ (pc = "returned" /\ err = NoError) => (round = call.args[1] \/ SinkResolved)
       /\ (/\ pc = "returned"
           /\ Undisturbed
           /\ IsSourceSink(prev.graph)
           /\ SourceSinkTasks
           /\ FreshFirst)
          => /\ err = NoError
             /\ round = call.args[1] \/ SinkResolved

\* run() is inside the bootstrap branch of a round
InBootstrapRound ==
    InRun /\ Undisturbed /\ pc \in {"boot_start", "boot_await", "boot_splice"}

\* run() is inside the steady-state branch of a round
InSteadyRound == InRun /\ Undisturbed /\ pc \in {"steady", "steady_await"}

\* C20: a round of run() is a bootstrap round exactly when the graph it
\* starts on consists of the Source and the Sink, alpha_task being the Source
\* connected to omega_task, the Sink; any other two-node graph gets a
\* steady-state round.
C20_BootstrapExactlyOnSourceSink ==
    /\ InBootstrapRound => (IsSourceSink(round_graph) /\ SourceSinkTasks)
    /\ InSteadyRound => ~(IsSourceSink(round_graph) /\ SourceSinkTasks)

---------------------------------------------------------------------------
(* Claims about the scheduling order and the stored structure *)

\* positions of the nodes without predecessor, in insertion order
ZeroInDegree(g) == {i \in 1..Len(g) : g[i].in_edges = {}}

\* the last-inserted node without predecessor
LastSeeded(g) ==
    g[CHOOSE i \in ZeroInDegree(g) : \A j \in ZeroInDegree(g) : j <= i].name

\* the first k names of s
Prefix(s, k) == {s[j] : j \in 1..k}

\* v is a successor of s[i] whose last predecessor in s is s[i]
BecomesReadyAt(g, s, v, i) ==
    /\ v \in Node(g, s[i]).out_edges
    /\ Node(g, v).in_edges \subseteq Prefix(s, i)

\* w had all its predecessors returned before s[i] and is not yet returned
\* when s[i] is
WaitingAt(g, s, w, i) ==
    /\ w \notin Prefix(s, i)
    /\ Node(g, w).in_edges \subseteq Prefix(s, i - 1)

\* C21: topological_sort consumes its ready collection last-in first-out:
\* on an acyclic graph the first name returned is the last-inserted node
\* without predecessor, and a successor that becomes ready when a node is
\* popped is returned before every node that was already waiting.
C21_ReadyIsStack ==
    (Returned("topological_sort") /\ ~HasCycle(graph) /\ Len(graph) > 0)
    => /\ err = NoError
       /\ ret[1] = LastSeeded(graph)
       /\ \A i \in 1..Len(ret) : \A v \in Keys(graph), w \in Keys(graph) :
              (BecomesReadyAt(graph, ret, v, i) /\ WaitingAt(graph, ret, w, i))
              => Position(ret, v) < Position(ret, w)

\* C21 witness: topological_sort has returned on a graph with two or more
\* nodes without predecessor, and some successor was made ready while
\* another node was waiting.
C21_Witness ==
    /\ Returned("topological_sort")
    /\ err = NoError
    /\ Cardinality(ZeroInDegree(graph)) >= 2
    /\ ret[1] # graph[1].name
    /\ \E i \in 1..Len(ret) : \E v \in Keys(graph), w \in Keys(graph) :
           BecomesReadyAt(graph, ret, v, i) /\ WaitingAt(graph, ret, w, i)

\* graph g with exactly the edge from -> to added to from's out_edges and
\* to to's in_edges
WithEdge(g, from, to) ==
    [i \in 1..Len(g) |->
        [g[i] EXCEPT !.out_edges = IF g[i].name = from THEN @ \cup {to} ELSE @,
                     !.in_edges = IF g[i].name = to THEN @ \cup {from} ELSE @]]

\* C22: add_edge accepts and rejects as the ancestor-reachability check
\* does: between two existing nodes, add_edge(from, to) succeeds if and only
\* if from differs from to and no path leads from to to from; on success
\* exactly to is added to from's out_edges and from to to's in_edges.
C22_AddEdgeAsReachabilityCheck ==
    (/\ Returned("add_edge")
     /\ call.args[1] \in Keys(prev.graph)
     /\ call.args[2] \in Keys(prev.graph))
    => /\ (err = NoError) <=> ~WouldCreateCycle(prev.graph, call.args[1], call.args[2])
       /\ err = NoError => graph = WithEdge(prev.graph, call.args[1], call.args[2])
       /\ err # NoError => graph = prev.graph

\* C23: after any sequence of add_node, delete_node, add_edge and
\* delete_edge calls, successful or failed, the edge sets are symmetric: for
\* all nodes u and v, v is in u's out_edges if and only if u is in v's
\* in_edges.
C23_EdgeSetsSymmetric ==
    \A i \in 1..Len(graph), j \in 1..Len(graph) :
        (graph[j].name \in graph[i].out_edges) <=> (graph[i].name \in graph[j].in_edges)

\* C23 witness: delete_node has removed a node that had a predecessor and a
\* successor, and an edge between other nodes is still stored.
C23_Witness ==
    /\ Returned("delete_node")
    /\ err = NoError
    /\ Node(prev.graph, call.args[1]).in_edges # {}
    /\ Node(prev.graph, call.args[1]).out_edges # {}
    /\ Edges(graph) # {}

\* C24: after any sequence of add_node, delete_node, add_edge, delete_edge
\* and reset_graph calls, successful or failed, node_count is the number of
\* nodes in the mapping, so the node_count == 2 test of run() is true
\* exactly when the graph holds two nodes.
C24_NodeCount ==
    /\ node_count = Len(graph)
    /\ node_count = Cardinality(Keys(graph))
    /\ IsBootstrapRound(graph, node_count) <=> Cardinality(Keys(graph)) = 2

\* C24 witness: reset_graph has emptied a graph of three nodes.
C24_Witness ==
    /\ Returned("reset_graph")
    /\ prev.node_count = 3
    /\ Len(prev.graph) = 3
    /\ node_count = 0
    /\ graph = <<>>

\* C25: for every acyclic graph and every node v of it, the sequence
\* all_downstreams(v) returns contains v, and v is its first element.
C25_StartNodeFirst ==
    (/\ Returned("all_downstreams")
     /\ call.args[1] \in Keys(graph)
     /\ ~HasCycle(graph))
    => /\ err = NoError
       /\ Len(ret) >= 1
       /\ ret[1] = call.args[1]
       /\ \A i \in 2..Len(ret) : ret[i] # call.args[1]

\* C25 witness: all_downstreams(task_2) on the graph of test_taskGraph has
\* returned task_2 followed by task_3.
C25_Witness ==
    /\ Returned("all_downstreams")
    /\ IsTestGraph(graph)
    /\ call.args = <<"task_2">>
    /\ err = NoError
    /\ ret = <<"task_2", "task_3">>

====
